---- MODULE Spec2Model ----
(***************************************************************************)
(* Model of pkg/dia/helpers/alephium-helper/client.go: the AlephiumClient  *)
(* gateway (callAPI), pool discovery, token pair / token metadata          *)
(* resolution and the chain/event poller.                                  *)
(*                                                                         *)
(* Go strings that the code only compares or passes through (addresses,    *)
(* hashes, URLs) are TLA+ strings.  Go strings that the code decodes or    *)
(* parses (hex payloads, decimal payloads) are sequences of one-character  *)
(* strings, and decoded text is the sequence of its byte values.           *)
(***************************************************************************)
EXTENDS Integers, Sequences, FiniteSets, TLC

\* Debug, sleepBetweenCalls: the fields of the AlephiumClient.
\* ALPHNativeToken:          the package variable of that name.
\* requestCount, sleepCount: how often the client has called HTTPClient.Do and
\*                           time.Sleep so far.
\* last:                     the last public operation: its name, arguments,
\*                           gateway calls, return values and network trace.
VARIABLES Debug, sleepBetweenCalls, ALPHNativeToken, requestCount, sleepCount, last

vars == <<Debug, sleepBetweenCalls, ALPHNativeToken, requestCount, sleepCount, last>>

----------------------------------------------------------------------------
\* Bounds of the model.

\* Cap on the number of HTTP requests one client sends in a behaviour.
MaxRequests == 2

----------------------------------------------------------------------------
\* Program constants.

BackendURL == "https://backend.mainnet.alephium.org"
NodeURL == "https://node.mainnet.alephium.org"
AYINPairContractAddress == "vyrkJHG49TXss6pGAz2dVxq5o7mBXNNXAV18nAeqVT1R"

SymbolMethod == 0
NameMethod == 1
DecimalsMethod == 2
TokenPairMethod == 7
SwapEventIndex == 2

DefaultSleepBetweenContractCalls == 300
DefaultSwapContractsLimit == 100

\* http.StatusOK
StatusOK == 200

\* Number of values of dia.Asset.Decimals (uint8).
Uint8Mod == 256

\* The nil error.
NilErr == "<nil>"

ErrDumpRequest == "httputil.DumpRequestOut failed"
ErrTransport == "HTTPClient.Do failed"
ErrDumpResponse == "httputil.DumpResponse failed"
ErrNot200 == "not 200 http response code from api"
ErrUnmarshal == "json.Unmarshal failed"
ErrBodyClose == "resp.Body.Close failed"
ErrGroup == "groupOfAddress failed"
ErrTokenId == "AddressFromTokenId failed"
ErrHex == "hex.DecodeString failed"
ErrSyntax == "strconv.ParseUint: invalid syntax"
ErrRange == "strconv.ParseUint: value out of range"

----------------------------------------------------------------------------
\* Text helpers.

\* "ALPH" and "Alephium" as byte sequences.
TextALPH == <<65, 76, 80, 72>>
TextAlephium == <<65, 108, 101, 112, 104, 105, 117, 109>>

HexDigits == {"0", "1", "2", "3", "4", "5", "6", "7", "8", "9",
              "a", "b", "c", "d", "e", "f", "A", "B", "C", "D", "E", "F"}

DecDigits == {"0", "1", "2", "3", "4", "5", "6", "7", "8", "9"}

DigitVal(ch) ==
    CASE ch = "0" -> 0 [] ch = "1" -> 1 [] ch = "2" -> 2 [] ch = "3" -> 3
      [] ch = "4" -> 4 [] ch = "5" -> 5 [] ch = "6" -> 6 [] ch = "7" -> 7
      [] ch = "8" -> 8 [] ch = "9" -> 9
      [] ch \in {"a", "A"} -> 10 [] ch \in {"b", "B"} -> 11
      [] ch \in {"c", "C"} -> 12 [] ch \in {"d", "D"} -> 13
      [] ch \in {"e", "E"} -> 14 [] ch \in {"f", "F"} -> 15

\* DecodeHex: hex-encoded byte string to text; fails on odd length or on a
\* character that is no hex digit.
DecodeHex(hexString) ==
    IF Len(hexString) % 2 # 0 \/ \E i \in 1..Len(hexString) : hexString[i] \notin HexDigits
    THEN [err |-> ErrHex, value |-> <<>>]
    ELSE [err |-> NilErr,
          value |-> [i \in 1..(Len(hexString) \div 2) |->
                        16 * DigitVal(hexString[2 * i - 1]) + DigitVal(hexString[2 * i])]]

RECURSIVE DecimalValue(_)
DecimalValue(s) ==
    IF s = <<>> THEN 0
    ELSE 10 * DecimalValue(SubSeq(s, 1, Len(s) - 1)) + DigitVal(s[Len(s)])

\* The digits of 1<<32 - 1, the largest value of bitSize 32.
MaxUint32Digits == <<"4", "2", "9", "4", "9", "6", "7", "2", "9", "5">>

RECURSIVE StripZeros(_)
StripZeros(s) ==
    IF Len(s) > 1 /\ s[1] = "0" THEN StripZeros(Tail(s)) ELSE s

\* Whether the decimal numeral s denotes more than 1<<32 - 1.
ExceedsUint32(s) ==
    LET t == StripZeros(s)
        m == MaxUint32Digits
    IN  \/ Len(t) > Len(m)
        \/ /\ Len(t) = Len(m)
           /\ \E i \in 1..Len(m) :
                /\ DigitVal(t[i]) > DigitVal(m[i])
                /\ \A j \in 1..(i - 1) : t[j] = m[j]

\* strconv.ParseUint(s, 10, 32)
ParseUint32(s) ==
    IF s = <<>> \/ \E i \in 1..Len(s) : s[i] \notin DecDigits
    THEN [err |-> ErrSyntax, value |-> 0]
    ELSE IF ExceedsUint32(s)
    THEN [err |-> ErrRange, value |-> 0]
    ELSE [err |-> NilErr, value |-> DecimalValue(s)]

\* The conversion uint8(x) of an unsigned integer.
ToUint8(x) == x % Uint8Mod

----------------------------------------------------------------------------
\* Addresses and token ids.

NativeAddress == "tgx7VNFoP9DJiFMFgXXtafQZkUvyEdDHT9ryamHJYrjq"
PoolAddress == "25ywM8iGxKpZWuGA5z6DXKGcZCXtPBmnbQyJEsjvjjWTy"
TokenAddress == "2A5R8KZQ3rhKYrW7bAS4JTjY9FCFLJg6HjQpqSFZBqACX"
OtherTokenAddress == "xUTp3RXGJ1fJpCGqsAY6GgyfRQ3WQ1MdcYR1SiwndAbR"
MalformedAddress == "0OIl-not-base58"

TokenId1 == "1a281053ba8601a658368594da034c2e99a0fb951b86498d05e76aedfe666800"
TokenId2 == "0000000000000000000000000000000000000000000000000000000000000000"
MalformedTokenId == "1a28zz"

\* groupOfAddress: the shard group of a contract address, or an error for a
\* malformed address.
groupOfAddress(address) ==
    CASE address = NativeAddress -> [err |-> NilErr, group |-> 0]
      [] address = PoolAddress -> [err |-> NilErr, group |-> 0]
      [] address = TokenAddress -> [err |-> NilErr, group |-> 0]
      [] address = OtherTokenAddress -> [err |-> NilErr, group |-> 0]
      [] OTHER -> [err |-> ErrGroup, group |-> 0]

\* AddressFromTokenId: the contract address of a 32-byte token id, or an error
\* for a malformed id.
AddressFromTokenId(tokenId) ==
    CASE tokenId = TokenId1 -> [err |-> NilErr, address |-> TokenAddress]
      [] tokenId = TokenId2 -> [err |-> NilErr, address |-> NativeAddress]
      [] OTHER -> [err |-> ErrTokenId, address |-> ""]

----------------------------------------------------------------------------
\* HTTP requests, server behaviours and the gateway.

\* CallContractRequest{Group, Address, MethodIndex}
CallContractRequest(group, address, methodIndex) ==
    [Group |-> group, Address |-> address, MethodIndex |-> methodIndex]

\* http.NewRequest(method, url, body): the url is kept as its format string
\* and the values formatted into it.
NewRequest(method, base, path, arg, limit, page, height, calls) ==
    [Method |-> method, base |-> base, path |-> path, arg |-> arg,
     limit |-> limit, page |-> page, height |-> height, calls |-> calls]

\* What the client observably does during a call: it sends a request (and gets
\* a status, 0 when the transport failed) or it sleeps.
RequestEvent(request, status) ==
    [kind |-> "request", request |-> request, status |-> status, duration |-> 0]

SleepEvent(request, duration) ==
    [kind |-> "sleep", request |-> request, status |-> 0, duration |-> duration]

\* AlephiumClient.waiting
waiting(c, request) == <<SleepEvent(request, c.sleepBetweenCalls)>>

\* What can go wrong around one exchange, besides the status and the body.
Faults == {"dumpRequest", "transport", "dumpResponse", "bodyClose"}

\* A body that is no valid JSON for the target leaves the target untouched.
Malformed(zero) == [valid |-> FALSE, value |-> zero]

WellFormed(v) == [valid |-> TRUE, value |-> v]

Statuses == {200, 201, 500}

\* The behaviours of the server and the transport for one exchange: every
\* status with a matching and with a malformed body, every body with status
\* 200, and each single fault around an exchange that would else succeed.
HTTPBehaviours(values, zero) ==
    LET good == CHOOSE v \in values : TRUE
    IN  {[faults |-> {}, StatusCode |-> st, body |-> b] :
            st \in Statuses, b \in {WellFormed(good), Malformed(zero)}}
        \cup {[faults |-> {}, StatusCode |-> StatusOK, body |-> WellFormed(v)] : v \in values}
        \cup {[faults |-> {f}, StatusCode |-> st, body |-> WellFormed(good)] :
                f \in Faults, st \in {StatusOK}}

\* callAPI as it would be if it took every status in 200..299 for a success.
callAPIAccepting2xx(c, request, target, srv) ==
    IF c.Debug /\ "dumpRequest" \in srv.faults
    THEN [err |-> ErrDumpRequest, target |-> target, trace |-> <<>>]
    ELSE IF "transport" \in srv.faults
    THEN [err |-> ErrTransport, target |-> target, trace |-> <<RequestEvent(request, 0)>>]
    ELSE IF c.Debug /\ "dumpResponse" \in srv.faults
    THEN [err |-> ErrDumpResponse, target |-> target,
          trace |-> <<RequestEvent(request, srv.StatusCode)>>]
    ELSE IF srv.StatusCode \notin 200..299
    THEN [err |-> ErrNot200, target |-> target,
          trace |-> <<RequestEvent(request, srv.StatusCode)>>]
    ELSE IF ~srv.body.valid
    THEN [err |-> ErrUnmarshal, target |-> target,
          trace |-> <<RequestEvent(request, srv.StatusCode)>>]
    ELSE [err |-> IF "bodyClose" \in srv.faults THEN ErrBodyClose ELSE NilErr,
          target |-> srv.body.value,
          trace |-> <<RequestEvent(request, srv.StatusCode)>> \o waiting(c, request)]

\* callAPI as it would be if it sent the request a second time after a status
\* that is not 200.
callAPIRetrying(c, request, target, srv) ==
    IF c.Debug /\ "dumpRequest" \in srv.faults
    THEN [err |-> ErrDumpRequest, target |-> target, trace |-> <<>>]
    ELSE IF "transport" \in srv.faults
    THEN [err |-> ErrTransport, target |-> target, trace |-> <<RequestEvent(request, 0)>>]
    ELSE IF c.Debug /\ "dumpResponse" \in srv.faults
    THEN [err |-> ErrDumpResponse, target |-> target,
          trace |-> <<RequestEvent(request, srv.StatusCode)>>]
    ELSE IF srv.StatusCode # StatusOK
    THEN [err |-> ErrNot200, target |-> target,
          trace |-> <<RequestEvent(request, srv.StatusCode),
                      RequestEvent(request, srv.StatusCode)>>]
    ELSE IF ~srv.body.valid
    THEN [err |-> ErrUnmarshal, target |-> target,
          trace |-> <<RequestEvent(request, srv.StatusCode)>>]
    ELSE [err |-> IF "bodyClose" \in srv.faults THEN ErrBodyClose ELSE NilErr,
          target |-> srv.body.value,
          trace |-> <<RequestEvent(request, srv.StatusCode)>> \o waiting(c, request)]

\* AlephiumClient.callAPI.  c is the client, target the value the caller
\* passes in, srv the behaviour of the server for this exchange.  The result is
\* the returned error, the target as the call leaves it, and the events of the
\* call in order.
callAPI(c, request, target, srv) ==
    IF c.Debug /\ "dumpRequest" \in srv.faults
    THEN [err |-> ErrDumpRequest, target |-> target, trace |-> <<>>]
    ELSE IF "transport" \in srv.faults
    THEN [err |-> ErrTransport, target |-> target, trace |-> <<RequestEvent(request, 0)>>]
    ELSE IF c.Debug /\ "dumpResponse" \in srv.faults
    THEN [err |-> ErrDumpResponse, target |-> target,
          trace |-> <<RequestEvent(request, srv.StatusCode)>>]
    ELSE IF srv.StatusCode # StatusOK
    THEN [err |-> ErrNot200, target |-> target,
          trace |-> <<RequestEvent(request, srv.StatusCode)>>]
    ELSE IF ~srv.body.valid
    THEN [err |-> ErrUnmarshal, target |-> target,
          trace |-> <<RequestEvent(request, srv.StatusCode)>>]
    ELSE [err |-> IF "bodyClose" \in srv.faults THEN ErrBodyClose ELSE NilErr,
          target |-> srv.body.value,
          trace |-> <<RequestEvent(request, srv.StatusCode)>> \o waiting(c, request)]

\* The requests and the sleeps of a trace.
Requests(trace) == SelectSeq(trace, LAMBDA e : e.kind = "request")

Sleeps(trace) == SelectSeq(trace, LAMBDA e : e.kind = "sleep")

----------------------------------------------------------------------------
\* Outcomes of the public operations.  value and err are what the operation
\* returns, panicked says that it did not return but hit a run-time panic
\* (an index out of range), trace is what it did on the network, calls the
\* gateway calls it made, in order.

\* One gateway call: the request and the target handed to callAPI, and what
\* callAPI returned.
Call(request, zero, result) == [request |-> request, zero |-> zero, result |-> result]

Returned(value, err, trace, calls) ==
    [value |-> value, err |-> err, panicked |-> FALSE, trace |-> trace, calls |-> calls]

Panicked(zero, trace, calls) ==
    [value |-> zero, err |-> NilErr, panicked |-> TRUE, trace |-> trace, calls |-> calls]

\* The zero value of SubContractResponse.
ZeroSubContractResponse == [SubContracts |-> <<>>]

SubContractsRequest(swapContractsLimit, page) ==
    NewRequest("GET", BackendURL, "/contracts/%s/sub-contracts?limit=%d&page=%d",
               AYINPairContractAddress, swapContractsLimit, page, 0, <<>>)

\* GetSwapPairsContractAddresses as it would be if it appended page 1 to page 2.
GetSwapPairsPage2First(c, swapContractsLimit, srv1, srv2) ==
    LET request1 == SubContractsRequest(swapContractsLimit, 1)
        request2 == SubContractsRequest(swapContractsLimit, 2)
        page1 == callAPI(c, request1, ZeroSubContractResponse, srv1)
        page2 == callAPI(c, request2, ZeroSubContractResponse, srv2)
        call1 == Call(request1, ZeroSubContractResponse, page1)
        call2 == Call(request2, ZeroSubContractResponse, page2)
    IN  IF page1.err # NilErr
        THEN Returned(page1.target, page1.err, page1.trace, <<call1>>)
        ELSE IF page2.err # NilErr
        THEN Returned(page1.target, page2.err, page1.trace \o page2.trace, <<call1, call2>>)
        ELSE Returned([SubContracts |-> page2.target.SubContracts \o page1.target.SubContracts],
                      NilErr, page1.trace \o page2.trace, <<call1, call2>>)

\* AlephiumClient.GetSwapPairsContractAddresses
GetSwapPairsContractAddresses(c, swapContractsLimit, srv1, srv2) ==
    LET request1 == SubContractsRequest(swapContractsLimit, 1)
        request2 == SubContractsRequest(swapContractsLimit, 2)
        page1 == callAPI(c, request1, ZeroSubContractResponse, srv1)
        page2 == callAPI(c, request2, ZeroSubContractResponse, srv2)
        call1 == Call(request1, ZeroSubContractResponse, page1)
        call2 == Call(request2, ZeroSubContractResponse, page2)
    IN  IF page1.err # NilErr
        THEN Returned(page1.target, page1.err, page1.trace, <<call1>>)
        ELSE IF page2.err # NilErr
        THEN Returned(page1.target, page2.err, page1.trace \o page2.trace, <<call1, call2>>)
        ELSE Returned([SubContracts |-> page1.target.SubContracts \o page2.target.SubContracts],
                      NilErr, page1.trace \o page2.trace, <<call1, call2>>)

\* The zero value of CallContractResult.
\* A pointer is the empty sequence (nil) or a sequence holding what it points to.
Nil == <<>>

Ptr(v) == <<v>>

\* A typed return value of a contract call.
Val(type, value) == [Type |-> type, Value |-> value]

\* CallContractResult and one row of MulticallContractResponse: Error is a
\* *string, Returns the ordered return values.
CallSucceeded(returns) == [Type |-> "CallContractSucceeded", Error |-> Nil, Returns |-> returns]

CallFailed(message) == [Type |-> "CallContractFailed", Error |-> Ptr(message), Returns |-> <<>>]

\* The zero value of CallContractResult.
ZeroCallContractResult == [Type |-> "", Error |-> Nil, Returns |-> <<>>]

CallContractHTTPRequest(contractAddress, group) ==
    NewRequest("POST", NodeURL, "/contracts/call-contract", "", 0, 0, 0,
               <<CallContractRequest(group, contractAddress, TokenPairMethod)>>)

\* AlephiumClient.GetTokenPairAddresses
GetTokenPairAddresses(c, contractAddress, srv) ==
    LET g == groupOfAddress(contractAddress)
        req == CallContractHTTPRequest(contractAddress, g.group)
        call == callAPI(c, req, ZeroCallContractResult, srv)
        calls == <<Call(req, ZeroCallContractResult, call)>>
        response == call.target
        address1 == AddressFromTokenId(response.Returns[1].Value)
        address2 == AddressFromTokenId(response.Returns[2].Value)
    IN  IF g.err # NilErr THEN Returned(<<>>, g.err, <<>>, <<>>)
        ELSE IF call.err # NilErr THEN Returned(<<>>, call.err, call.trace, calls)
        ELSE IF response.Error # Nil THEN Returned(<<>>, response.Error[1], call.trace, calls)
        ELSE IF Len(response.Returns) < 1 THEN Panicked(<<>>, call.trace, calls)
        ELSE IF address1.err # NilErr THEN Returned(<<>>, address1.err, call.trace, calls)
        ELSE IF Len(response.Returns) < 2 THEN Panicked(<<>>, call.trace, calls)
        ELSE IF address2.err # NilErr THEN Returned(<<>>, address2.err, call.trace, calls)
        ELSE Returned(<<address1.address, address2.address>>, NilErr, call.trace, calls)

\* dia.Asset
Asset(address, symbol, name, decimals, blockchain) ==
    [Address |-> address, Symbol |-> symbol, Name |-> name, Decimals |-> decimals,
     Blockchain |-> blockchain]

\* The zero value of dia.Asset.
ZeroAsset == Asset("", <<>>, <<>>, 0, "")

\* AlephiumClient.decodeMulticallRequestToAssets.  resp.Results holds the
\* OutputFields; the result is the asset, the error, and whether an index into
\* resp.Results was out of range.
decodeMulticallRequestToAssets(contractAddress, blockchain, resp) ==
    LET n == Len(resp.Results)
        symbol == DecodeHex(resp.Results[SymbolMethod + 1].Value)
        name == DecodeHex(resp.Results[NameMethod + 1].Value)
        decimals == ParseUint32(resp.Results[DecimalsMethod + 1].Value)
        asset1 == [ZeroAsset EXCEPT !.Symbol = symbol.value]
        asset2 == [asset1 EXCEPT !.Name = name.value]
    IN  IF n <= SymbolMethod THEN [asset |-> ZeroAsset, err |-> NilErr, panicked |-> TRUE]
        ELSE IF symbol.err # NilErr
        THEN [asset |-> ZeroAsset, err |-> symbol.err, panicked |-> FALSE]
        ELSE IF n <= NameMethod THEN [asset |-> asset1, err |-> NilErr, panicked |-> TRUE]
        ELSE IF name.err # NilErr
        THEN [asset |-> asset1, err |-> name.err, panicked |-> FALSE]
        ELSE IF n <= DecimalsMethod THEN [asset |-> asset2, err |-> NilErr, panicked |-> TRUE]
        ELSE IF decimals.err # NilErr
        THEN [asset |-> asset2, err |-> decimals.err, panicked |-> FALSE]
        ELSE [asset |-> [asset2 EXCEPT !.Decimals = ToUint8(decimals.value),
                                       !.Address = contractAddress,
                                       !.Blockchain = blockchain],
              err |-> NilErr, panicked |-> FALSE]

\* The loop of GetTokenInfoForContractDecoded over response.Results, from row i
\* on: it stops at the first row with an error (kind "error") or with no return
\* value (kind "panic"), and else collects one OutputField per row.
RECURSIVE CollectFields(_, _, _)
CollectFields(results, i, fields) ==
    IF i > Len(results) THEN [kind |-> "done", err |-> NilErr, fields |-> fields]
    ELSE IF results[i].Error # Nil
    THEN [kind |-> "error", err |-> results[i].Error[1], fields |-> fields]
    ELSE IF Len(results[i].Returns) < 1
    THEN [kind |-> "panic", err |-> NilErr, fields |-> fields]
    ELSE CollectFields(results, i + 1,
                       Append(fields, [ResponseResult |-> results[i].Type,
                                       Type |-> results[i].Returns[1].Type,
                                       Value |-> results[i].Returns[1].Value]))

\* The zero value of MulticallContractResponse.
ZeroMulticallContractResponse == [Results |-> <<>>]

MulticallHTTPRequest(contractAddress, group) ==
    NewRequest("POST", NodeURL, "/contracts/multicall-contract", "", 0, 0, 0,
               [i \in 1..3 |-> CallContractRequest(group, contractAddress, i - 1)])

\* GetTokenInfoForContractDecoded as it would be without the short cut for the
\* native token.
GetTokenInfoWithoutShortCut(c, nativeToken, contractAddress, blockchain, srv) ==
    LET g == groupOfAddress(contractAddress)
        req == MulticallHTTPRequest(contractAddress, g.group)
        call == callAPI(c, req, ZeroMulticallContractResponse, srv)
        calls == <<Call(req, ZeroMulticallContractResponse, call)>>
        rows == CollectFields(call.target.Results, 1, <<>>)
        output == [Address |-> contractAddress, Results |-> rows.fields]
        decoded == decodeMulticallRequestToAssets(contractAddress, blockchain, output)
    IN  IF g.err # NilErr THEN Returned(Nil, g.err, <<>>, <<>>)
        ELSE IF call.err # NilErr THEN Returned(Nil, call.err, call.trace, calls)
        ELSE IF rows.kind = "error" THEN Returned(Nil, rows.err, call.trace, calls)
        ELSE IF rows.kind = "panic" THEN Panicked(Nil, call.trace, calls)
        ELSE IF decoded.panicked THEN Panicked(Nil, call.trace, calls)
        ELSE Returned(Ptr(decoded.asset), decoded.err, call.trace, calls)

\* AlephiumClient.GetTokenInfoForContractDecoded.  nativeToken is the value of
\* the package variable ALPHNativeToken when the operation runs.
GetTokenInfoForContractDecoded(c, nativeToken, contractAddress, blockchain, srv) ==
    LET g == groupOfAddress(contractAddress)
        req == MulticallHTTPRequest(contractAddress, g.group)
        call == callAPI(c, req, ZeroMulticallContractResponse, srv)
        calls == <<Call(req, ZeroMulticallContractResponse, call)>>
        rows == CollectFields(call.target.Results, 1, <<>>)
        output == [Address |-> contractAddress, Results |-> rows.fields]
        decoded == decodeMulticallRequestToAssets(contractAddress, blockchain, output)
    IN  IF contractAddress = nativeToken.Address THEN Returned(Ptr(nativeToken), NilErr, <<>>, <<>>)
        ELSE IF g.err # NilErr THEN Returned(Nil, g.err, <<>>, <<>>)
        ELSE IF call.err # NilErr THEN Returned(Nil, call.err, call.trace, calls)
        ELSE IF rows.kind = "error" THEN Returned(Nil, rows.err, call.trace, calls)
        ELSE IF rows.kind = "panic" THEN Panicked(Nil, call.trace, calls)
        ELSE IF decoded.panicked THEN Panicked(Nil, call.trace, calls)
        ELSE Returned(Ptr(decoded.asset), decoded.err, call.trace, calls)

----------------------------------------------------------------------------
\* Chain/event poller.

GetRequest(base, path, arg, height) == NewRequest("GET", base, path, arg, 0, 0, height, <<>>)

\* AlephiumClient.GetCurrentHeight
GetCurrentHeight(c, srv) ==
    LET req == GetRequest(NodeURL, "/blockflow/chain-info?fromGroup=0&toGroup=0", "", 0)
        call == callAPI(c, req, [CurrentHeight |-> 0], srv)
        calls == <<Call(req, [CurrentHeight |-> 0], call)>>
    IN  IF call.err # NilErr THEN Returned(0, call.err, call.trace, calls)
        ELSE Returned(call.target.CurrentHeight, NilErr, call.trace, calls)

\* AlephiumClient.GetBlockHashes
GetBlockHashes(c, height, srv) ==
    LET req == GetRequest(NodeURL, "/blockflow/hashes?fromGroup=0&toGroup=0&height=%d",
                                      "", height)
        call == callAPI(c, req, [Headers |-> <<>>], srv)
        calls == <<Call(req, [Headers |-> <<>>], call)>>
    IN  IF call.err # NilErr THEN Returned(<<>>, call.err, call.trace, calls)
        ELSE Returned(call.target.Headers, NilErr, call.trace, calls)

\* AlephiumClient.GetBlockEvents
GetBlockEvents(c, blockHash, srv) ==
    LET req == GetRequest(NodeURL, "/events/block-hash/%s?group=0", blockHash, 0)
        call == callAPI(c, req, [Events |-> <<>>], srv)
        calls == <<Call(req, [Events |-> <<>>], call)>>
    IN  IF call.err # NilErr THEN Returned(<<>>, call.err, call.trace, calls)
        ELSE Returned(call.target.Events, NilErr, call.trace, calls)

\* AlephiumClient.GetTransactionDetails
GetTransactionDetails(c, txnHash, srv) ==
    LET req == GetRequest(BackendURL, "/transactions/%s", txnHash, 0)
        call == callAPI(c, req, [Hash |-> ""], srv)
        calls == <<Call(req, [Hash |-> ""], call)>>
    IN  IF call.err # NilErr THEN Returned(call.target, call.err, call.trace, calls)
        ELSE Returned(call.target, NilErr, call.trace, calls)

\* AlephiumClient.GetContractState
GetContractState(c, address, srv) ==
    LET req == GetRequest(NodeURL, "/contracts/%s/state", address, 0)
        call == callAPI(c, req, [Address |-> ""], srv)
        calls == <<Call(req, [Address |-> ""], call)>>
    IN  IF call.err # NilErr THEN Returned(call.target, call.err, call.trace, calls)
        ELSE Returned(call.target, NilErr, call.trace, calls)

\* ContractEvent
ContractEvent(eventIndex, txId) == [EventIndex |-> eventIndex, TxId |-> txId]

\* AlephiumClient.FilterEvents
FilterEvents(allEvents, filter) == SelectSeq(allEvents, LAMBDA event : event.EventIndex = filter)

----------------------------------------------------------------------------
\* Inputs of the operations.

PageSizes == {DefaultSwapContractsLimit, 50}

SubContractResponses == {[SubContracts |-> <<"A", "B">>], [SubContracts |-> <<"C">>],
                         [SubContracts |-> <<>>]}

ContractAddresses == {PoolAddress, MalformedAddress}

TokenIdValue(id) == Val("ByteVec", id)

CallContractResults ==
    {CallFailed("VM execution error")}
    \cup {CallSucceeded(returns) :
            returns \in {<<>>,
                         <<TokenIdValue(TokenId1)>>,
                         <<TokenIdValue(MalformedTokenId)>>,
                         <<TokenIdValue(TokenId1), TokenIdValue(TokenId2)>>,
                         <<TokenIdValue(TokenId1), TokenIdValue(MalformedTokenId)>>,
                         <<TokenIdValue(TokenId2), TokenIdValue(TokenId1), TokenIdValue(TokenId1)>>}}

TokenAddresses == {NativeAddress, TokenAddress, MalformedAddress}

Blockchains == {"Alephium", "AlephiumTestnet"}

\* hex("AYIN"), hex("Ayin"), and payloads that do not decode.
HexAYIN == <<"4", "1", "5", "9", "4", "9", "4", "e">>
HexAyin == <<"4", "1", "7", "9", "6", "9", "6", "E">>
HexOdd == <<"4", "1", "5">>
HexBad == <<"4", "1", "g", "0">>

Row(value) == CallSucceeded(<<Val("ByteVec", value)>>)

NumberRow(value) == CallSucceeded(<<Val("U256", value)>>)

RowFailed == CallFailed("VM execution error")

RowEmpty == CallSucceeded(<<>>)

SymbolRows == {Row(HexAYIN), Row(HexBad), RowFailed, RowEmpty}

NameRows == {Row(HexAyin), Row(HexOdd), RowFailed}

DecimalsRows == {NumberRow(<<"1", "8">>), NumberRow(<<"2", "5", "5">>), NumberRow(<<"2", "5", "6">>),
                 NumberRow(<<"3", "0", "0">>), NumberRow(<<"1", "x">>),
                 NumberRow(<<"4", "2", "9", "4", "9", "6", "7", "2", "9", "6">>),
                 RowFailed, RowEmpty}

MulticallContractResponses ==
    {[Results |-> rows] :
        rows \in {<<>>}
                 \cup {<<a>> : a \in SymbolRows}
                 \cup {<<a, b>> : a \in {Row(HexAYIN)}, b \in NameRows}
                 \cup {<<a, b, NumberRow(<<"1", "8">>)>> : a \in SymbolRows, b \in NameRows}
                 \cup {<<Row(HexAYIN), Row(HexAyin), d>> : d \in DecimalsRows}
                 \cup {<<Row(HexAYIN), Row(HexAyin), NumberRow(<<"1", "8">>), RowFailed>>}}

Heights == {1, 2}

BlockHashes == {"00000000000b1f", "00000000000c2e"}

EventLists == {<<>>,
               <<ContractEvent(SwapEventIndex, "t1"), ContractEvent(0, "t2"),
                 ContractEvent(SwapEventIndex, "t3")>>,
               <<ContractEvent(1, "t4")>>}

EventIndexes == {0, SwapEventIndex}

TxHashes == {"b9744b60"}

----------------------------------------------------------------------------
\* The client as a state machine: one action per public operation.

\* The receiver of the methods.
Client == [Debug |-> Debug, sleepBetweenCalls |-> sleepBetweenCalls]

\* An operation runs while the process lives (a panic ends it) and while the
\* requests it sends fit under the cap of the model.
CanRun(out) ==
    /\ ~last.panicked
    /\ requestCount + Len(Requests(out.trace)) <= MaxRequests

\* What is kept of an operation: its name and arguments, the behaviour of the
\* server in each gateway call it made, the calls, and what it returned.
Outcome(op, args, srv, out) ==
    [op |-> op, args |-> args, srv |-> SubSeq(srv, 1, Len(out.calls)),
     calls |-> out.calls, value |-> out.value, err |-> out.err,
     panicked |-> out.panicked, trace |-> out.trace]

\* NewAlephiumClient(logger, sleepBetweenCalls, debug), and the initial value
\* of the package variable ALPHNativeToken.
Init ==
    /\ Debug \in BOOLEAN
    /\ sleepBetweenCalls = DefaultSleepBetweenContractCalls
    /\ ALPHNativeToken = Asset(NativeAddress, TextALPH, TextAlephium, 18, "")
    /\ requestCount = 0
    /\ sleepCount = 0
    /\ last = [op |-> "NewAlephiumClient", args |-> <<>>, srv |-> <<>>, calls |-> <<>>,
               value |-> <<>>, err |-> NilErr, panicked |-> FALSE, trace |-> <<>>]

DoGetSwapPairsContractAddresses ==
    \E limit \in PageSizes :
    \E srv1, srv2 \in HTTPBehaviours(SubContractResponses, ZeroSubContractResponse) :
        LET out == GetSwapPairsContractAddresses(Client, limit, srv1, srv2)
        IN  /\ CanRun(out)
            /\ last' = Outcome("GetSwapPairsContractAddresses", [swapContractsLimit |-> limit], <<srv1, srv2>>, out)
            /\ requestCount' = requestCount + Len(Requests(out.trace))
            /\ sleepCount' = sleepCount + Len(Sleeps(out.trace))
            /\ UNCHANGED <<Debug, sleepBetweenCalls, ALPHNativeToken>>

DoGetTokenPairAddresses ==
    \E address \in ContractAddresses :
    \E srv \in HTTPBehaviours(CallContractResults, ZeroCallContractResult) :
        LET out == GetTokenPairAddresses(Client, address, srv)
        IN  /\ CanRun(out)
            /\ last' = Outcome("GetTokenPairAddresses", [contractAddress |-> address], <<srv>>, out)
            /\ requestCount' = requestCount + Len(Requests(out.trace))
            /\ sleepCount' = sleepCount + Len(Sleeps(out.trace))
            /\ UNCHANGED <<Debug, sleepBetweenCalls, ALPHNativeToken>>

DoGetTokenInfoForContractDecoded ==
    \E address \in TokenAddresses, blockchain \in Blockchains :
    \E srv \in HTTPBehaviours(MulticallContractResponses, ZeroMulticallContractResponse) :
        LET out == GetTokenInfoForContractDecoded(Client, ALPHNativeToken, address, blockchain, srv)
        IN  /\ CanRun(out)
            /\ last' = Outcome("GetTokenInfoForContractDecoded", [contractAddress |-> address, blockchain |-> blockchain], <<srv>>, out)
            /\ requestCount' = requestCount + Len(Requests(out.trace))
            /\ sleepCount' = sleepCount + Len(Sleeps(out.trace))
            /\ UNCHANGED <<Debug, sleepBetweenCalls, ALPHNativeToken>>

DoGetCurrentHeight ==
    \E srv \in HTTPBehaviours({[CurrentHeight |-> h] : h \in Heights}, [CurrentHeight |-> 0]) :
        LET out == GetCurrentHeight(Client, srv)
        IN  /\ CanRun(out)
            /\ last' = Outcome("GetCurrentHeight", <<>>, <<srv>>, out)
            /\ requestCount' = requestCount + Len(Requests(out.trace))
            /\ sleepCount' = sleepCount + Len(Sleeps(out.trace))
            /\ UNCHANGED <<Debug, sleepBetweenCalls, ALPHNativeToken>>

DoGetBlockHashes ==
    \E height \in Heights :
    \E srv \in HTTPBehaviours({[Headers |-> <<h>>] : h \in BlockHashes}, [Headers |-> <<>>]) :
        LET out == GetBlockHashes(Client, height, srv)
        IN  /\ CanRun(out)
            /\ last' = Outcome("GetBlockHashes", [height |-> height], <<srv>>, out)
            /\ requestCount' = requestCount + Len(Requests(out.trace))
            /\ sleepCount' = sleepCount + Len(Sleeps(out.trace))
            /\ UNCHANGED <<Debug, sleepBetweenCalls, ALPHNativeToken>>

DoGetBlockEvents ==
    \E blockHash \in BlockHashes :
    \E srv \in HTTPBehaviours({[Events |-> es] : es \in EventLists}, [Events |-> <<>>]) :
        LET out == GetBlockEvents(Client, blockHash, srv)
        IN  /\ CanRun(out)
            /\ last' = Outcome("GetBlockEvents", [blockHash |-> blockHash], <<srv>>, out)
            /\ requestCount' = requestCount + Len(Requests(out.trace))
            /\ sleepCount' = sleepCount + Len(Sleeps(out.trace))
            /\ UNCHANGED <<Debug, sleepBetweenCalls, ALPHNativeToken>>

DoGetTransactionDetails ==
    \E txnHash \in TxHashes :
    \E srv \in HTTPBehaviours({[Hash |-> h] : h \in TxHashes}, [Hash |-> ""]) :
        LET out == GetTransactionDetails(Client, txnHash, srv)
        IN  /\ CanRun(out)
            /\ last' = Outcome("GetTransactionDetails", [txnHash |-> txnHash], <<srv>>, out)
            /\ requestCount' = requestCount + Len(Requests(out.trace))
            /\ sleepCount' = sleepCount + Len(Sleeps(out.trace))
            /\ UNCHANGED <<Debug, sleepBetweenCalls, ALPHNativeToken>>

DoGetContractState ==
    \E address \in {PoolAddress} :
    \E srv \in HTTPBehaviours({[Address |-> a] : a \in {PoolAddress}}, [Address |-> ""]) :
        LET out == GetContractState(Client, address, srv)
        IN  /\ CanRun(out)
            /\ last' = Outcome("GetContractState", [address |-> address], <<srv>>, out)
            /\ requestCount' = requestCount + Len(Requests(out.trace))
            /\ sleepCount' = sleepCount + Len(Sleeps(out.trace))
            /\ UNCHANGED <<Debug, sleepBetweenCalls, ALPHNativeToken>>

DoFilterEvents ==
    \E allEvents \in EventLists, filter \in EventIndexes :
        LET out == Returned(FilterEvents(allEvents, filter), NilErr, <<>>, <<>>)
        IN  /\ CanRun(out)
            /\ last' = Outcome("FilterEvents", [allEvents |-> allEvents, filter |-> filter], <<>>, out)
            /\ requestCount' = requestCount + Len(Requests(out.trace))
            /\ sleepCount' = sleepCount + Len(Sleeps(out.trace))
            /\ UNCHANGED <<Debug, sleepBetweenCalls, ALPHNativeToken>>

Next ==
    \/ DoGetSwapPairsContractAddresses
    \/ DoGetTokenPairAddresses
    \/ DoGetTokenInfoForContractDecoded
    \/ DoGetCurrentHeight
    \/ DoGetBlockHashes
    \/ DoGetBlockEvents
    \/ DoGetTransactionDetails
    \/ DoGetContractState
    \/ DoFilterEvents

Spec == Init /\ [][Next]_vars

TypeOK ==
    /\ Debug \in BOOLEAN
    /\ requestCount \in 0..MaxRequests
    /\ sleepCount \in 0..requestCount
    /\ last.panicked \in BOOLEAN

----------------------------------------------------------------------------
\* Vocabulary of the properties.

Pools == "GetSwapPairsContractAddresses"

Pair == "GetTokenPairAddresses"

TokenInfo == "GetTokenInfoForContractDecoded"

\* The faults of an exchange that the client runs into: the dumps are only
\* taken in Debug mode.
EffectiveFaults(srv) ==
    IF Debug THEN srv.faults ELSE srv.faults \ {"dumpRequest", "dumpResponse"}

\* The exchange got an HTTP response whose body the gateway went on to read.
Answered(srv) == EffectiveFaults(srv) \cap {"dumpRequest", "transport", "dumpResponse"} = {}

\* The gateway call got a response and ended in success, or got a response
\* with a status outside 200..299, which is an API error on any reading.
SuccessOrAPIError(k) ==
    /\ Answered(last.srv[k])
    /\ \/ last.calls[k].result.err = NilErr
       \/ last.srv[k].StatusCode \notin 200..299

\* The number of sleeps the k-th gateway call of the last operation took.
SleepsOfCall(k) == Len(Sleeps(last.calls[k].result.trace))

\* The fixed native asset.
NativeAsset == Asset(NativeAddress, TextALPH, TextAlephium, 18, "")

----------------------------------------------------------------------------
\* C1: every gateway call that ends in success or in an API error (after the
\* body was read) sleeps exactly once, for sleepBetweenCalls, before it returns.
C1_SleepAfterEveryCompletedCall ==
    \A k \in 1..Len(last.calls) :
        SuccessOrAPIError(k) =>
            /\ SleepsOfCall(k) = 1
            /\ \A e \in {last.calls[k].result.trace[i] : i \in 1..Len(last.calls[k].result.trace)} :
                   e.kind = "sleep" => e.duration = sleepBetweenCalls

\* C2: when a page fetch of pool discovery fails, the returned list of
\* sub-contracts is empty, and after a failed page 1 no page 2 is requested.
C2_NoPartialPageList ==
    (last.op = Pools /\ last.err # NilErr) =>
        /\ last.value.SubContracts = <<>>
        /\ last.calls[1].result.err # NilErr => Len(last.calls) = 1

\* C3: whenever token metadata resolution returns an error, the returned Asset
\* pointer is nil.
C3_NoAssetOnFailure ==
    (last.op = TokenInfo /\ ~last.panicked /\ last.err # NilErr) => last.value = Nil

C5_TwoPagesConcatenated ==
    (last.op = Pools /\ last.err = NilErr) =>
        LET requests == Requests(last.trace)
            limit == last.args.swapContractsLimit
        IN  /\ Len(requests) = 2
            /\ requests[1].request = SubContractsRequest(limit, 1)
            /\ requests[2].request = SubContractsRequest(limit, 2)
            /\ requests[1].request.page = 1 /\ requests[2].request.page = 2
            /\ requests[1].request.limit = limit /\ requests[2].request.limit = limit
            /\ last.value.SubContracts =
                   last.srv[1].body.value.SubContracts \o last.srv[2].body.value.SubContracts

C5_Witness ==
    /\ last.op = Pools /\ last.err = NilErr
    /\ last.srv[1].body.value.SubContracts = <<"A", "B">>
    /\ last.srv[2].body.value.SubContracts = <<"C">>
    /\ last.value.SubContracts = <<"A", "B", "C">>

\* C6: in Debug mode every gateway call sends its request and returns the same
\* error and target as the call without Debug does for the same exchange.
C6_DebugChangesNothing ==
    Debug =>
        \A k \in 1..Len(last.calls) :
            LET plain == callAPI([Client EXCEPT !.Debug = FALSE], last.calls[k].request,
                                 last.calls[k].zero, last.srv[k])
                debug == last.calls[k].result
            IN  /\ debug.err = plain.err
                /\ debug.target = plain.target
                /\ Requests(debug.trace) = Requests(plain.trace)

\* The sub-result payload at a position of the multi-call response.
SubResult(i) == last.srv[1].body.value.Results[i + 1].Returns[1].Value

\* C7: a successful resolution of a non-native token returns the input
\* address and blockchain, the hex-decoded symbol and name, and as decimals
\* exactly the number that sub-result 2 denotes.
C7_DecimalsExact ==
    (/\ last.op = TokenInfo
     /\ last.args.contractAddress # NativeAddress
     /\ ~last.panicked
     /\ last.err = NilErr) =>
        LET asset == last.value[1]
        IN  /\ asset.Address = last.args.contractAddress
            /\ asset.Blockchain = last.args.blockchain
            /\ asset.Symbol = DecodeHex(SubResult(SymbolMethod)).value
            /\ asset.Name = DecodeHex(SubResult(NameMethod)).value
            /\ asset.Decimals = DecimalValue(SubResult(DecimalsMethod))

\* C8: every resolution of the native token address returns the fixed native
\* asset and no error, whatever the blockchain name and whatever ran before,
\* and sends no request and takes no sleep.
C8_NativeTokenWithoutNetwork ==
    [][(last'.op = TokenInfo /\ last'.args.contractAddress = NativeAddress) =>
          /\ last'.value = Ptr(NativeAsset)
          /\ last'.err = NilErr
          /\ ~last'.panicked
          /\ last'.trace = <<>>
          /\ last'.calls = <<>>
          /\ requestCount' = requestCount
          /\ sleepCount' = sleepCount]_vars

C8_Witness ==
    /\ last.op = TokenInfo
    /\ last.args.contractAddress = NativeAddress
    /\ last.args.blockchain = "AlephiumTestnet"
    /\ last.value = Ptr(NativeAsset)
    /\ requestCount > 0

\* C9: no operation sends a request twice: pool discovery sends at most two
\* requests, all different, every other operation at most one; and when the
\* node answers the contract call of GetTokenPairAddresses with a status that
\* is not 200, the operation returns that error after exactly one request.
C9_NoRetry ==
    LET requests == Requests(last.trace)
    IN  /\ Len(requests) <= (IF last.op = Pools THEN 2 ELSE 1)
        /\ \A i, j \in 1..Len(requests) : i # j => requests[i].request # requests[j].request
        /\ (last.op = Pair /\ Len(last.srv) = 1 /\ Answered(last.srv[1])
                /\ last.srv[1].StatusCode # StatusOK) =>
              /\ last.err = ErrNot200
              /\ last.value = <<>>
              /\ Len(requests) = 1

C9_Witness ==
    /\ last.op = Pair
    /\ Len(last.srv) = 1
    /\ Answered(last.srv[1])
    /\ last.srv[1].StatusCode = 500
    /\ last.err = ErrNot200
    /\ Len(Requests(last.trace)) = 1

\* C10: GetTokenPairAddresses and GetTokenInfoForContractDecoded always return
\* a result or an error: no index into Returns or Results is out of range.
C10_NoPanic ==
    last.op \in {Pair, TokenInfo} => ~last.panicked

====
